---- MODULE Spec2Model ----
(***************************************************************************)
(* Model of datacontract/imports/ocsf_importer.py (OCSF import) and of     *)
(* datacontract/export/iceberg_converter.py (Iceberg field ids).           *)
(*                                                                         *)
(* Encoding of Python values:                                              *)
(*   - a dict with known keys is a function whose DOMAIN is the set of     *)
(*     keys present; d.get(k) is None iff k is not in DOMAIN d;            *)
(*   - an insertion-ordered dict that the code iterates (attributes,       *)
(*     fields, classes, models) is a sequence of [k, v] entries with       *)
(*     pairwise distinct keys;                                             *)
(*   - a description is a sequence of tokens (markup tags and text);       *)
(*   - a class name is a sequence of tokens so that str.replace("-", "_")  *)
(*     is computed, e.g. <<"my", "-", "class">>;                           *)
(*   - a "$ref" string is the sequence of its "/"-separated segments;      *)
(*     object names contain no "/".                                        *)
(***************************************************************************)
EXTENDS Integers, Sequences, FiniteSets, TLC

VARIABLES
    source,         \* the file given to from_json: [ok, doc]
    ocsf_classes,   \* import_args["ocsf_class"]: <<>> (None) or a list of names
    contract0,      \* the contract as handed to the import (never changes)
    contract,       \* data_contract_specification
    base_schema,    \* OcsfToContract.base_schema
    ocsf_types,     \* OcsfToContract.ocsf_types
    ocsf_objects,   \* OcsfToContract.ocsf_objects
    builds,         \* number of _build_object calls per object name
    log,            \* records emitted through log.warning
    pc,             \* position in import_source / import_ocsfschema
    exc,            \* the exception that left the import, if any
    input_models,   \* import_ocsfschema: input_models
    ci,             \* index of the class loop (line 302)
    mi,             \* index of the model loop (line 318)
    known,          \* import_ocsfschema: definitions / known_definitions
    stack,          \* active get_definitions frames: [fields, i]
    field_id,       \* iceberg_converter.field_id (module global)
    ice_models,     \* contract.models given to the exporter
    ice_next,       \* index of the next model to_iceberg converts
    ice_out,        \* NestedFields produced by each to_iceberg_schema call
    ice_pc          \* position of the exporter

import_vars == <<source, ocsf_classes, contract0, contract, base_schema, ocsf_types,
                 ocsf_objects, builds, log, pc, exc, input_models, ci, mi, known, stack>>
ice_vars == <<field_id, ice_models, ice_next, ice_out, ice_pc>>
vars == <<import_vars, ice_vars>>

----------------------------------------------------------------------------
\* Bounds of the explored inputs

MaxAttrs == 2       \* attributes of a generated class
MaxExports == 2     \* exports run by one process

----------------------------------------------------------------------------
\* Python values

None == "<None>"
EmptyDict == <<>>
Has(d, k) == k \in DOMAIN d

\* ChainMap with its arguments swapped: the second mapping wins
ChainMapBaseFirst(a, b) ==
    [k \in (DOMAIN a) \cup (DOMAIN b) |-> IF k \in DOMAIN b THEN b[k] ELSE a[k]]

\* collections.ChainMap(a, b) turned into a dict: the first mapping wins
ChainMap(a, b) ==
    [k \in (DOMAIN a) \cup (DOMAIN b) |-> IF k \in DOMAIN a THEN a[k] ELSE b[k]]

\* one optional key of a dict literal after _clean_dict
Opt(present, k, v) == IF present THEN k :> v ELSE EmptyDict

Keys(d) == {d[i].k : i \in DOMAIN d}
Lookup(d, key) == d[CHOOSE i \in DOMAIN d : d[i].k = key].v
\* d[key] = value on an insertion-ordered dict
DictSet(d, key, value) ==
    IF key \in Keys(d)
    THEN [i \in DOMAIN d |-> IF d[i].k = key THEN [k |-> key, v |-> value] ELSE d[i]]
    ELSE Append(d, [k |-> key, v |-> value])

Ok == "ok"
Ret(e, v, st) == [exc |-> e, val |-> v, st |-> st]

----------------------------------------------------------------------------
\* Module constants of ocsf_importer.py

CodeTags == {"<code>", "</code>"}
MarkupTags == {"<code>", "</code>", "<a>", "</a>"}

PII_TYPES == {"email_t", "hostname_t", "ip_t", "mac_t", "username_t"}
REQUIRED == "required"

base_types ==
    [boolean_t |-> "boolean", float_t |-> "float", integer_t |-> "integer",
     json_t |-> "string", long_t |-> "long", string_t |-> "string"]

Text == <<"txt">>

INTERNAL_OBJECTS ==
    [_dns |->
        [caption |-> "DNS", name |-> "_dns",
         description |-> <<"txt">>, extends |-> "object",
         attributes |-> <<
            [k |-> "class", v |-> [description |-> <<"txt", "<a>", "txt", "</a>", "<code>", "txt", "</code>">>,
                                   caption |-> "Resource Record Class", requirement |-> "recommended"]],
            [k |-> "packet_uid", v |-> [description |-> Text, requirement |-> "recommended"]],
            [k |-> "type", v |-> [description |-> <<"txt", "<a>", "txt", "</a>">>,
                                  caption |-> "Resource Record Type", requirement |-> "recommended"]] >>],
     _entity |->
        [caption |-> "Entity", name |-> "_entity",
         description |-> Text, extends |-> "object",
         attributes |-> <<
            [k |-> "name", v |-> [description |-> Text, requirement |-> "recommended"]],
            [k |-> "uid", v |-> [description |-> Text, requirement |-> "recommended"]] >>,
         constraints |-> [at_least_one |-> <<"name", "uid">>]],
     _resource |->
        [caption |-> "Resource", description |-> Text, extends |-> "_entity",
         name |-> "_resource", profiles |-> <<"data_classification">>,
         attributes |-> <<
            [k |-> "$include", v |-> [list |-> <<"profiles/data_classification.json">>]],
            [k |-> "data", v |-> [description |-> Text, requirement |-> "optional"]],
            [k |-> "labels", v |-> [description |-> Text, requirement |-> "optional"]],
            [k |-> "name", v |-> [description |-> Text]],
            [k |-> "type", v |-> [description |-> Text, requirement |-> "optional"]],
            [k |-> "uid", v |-> [description |-> Text]] >>]]

\* a JSON list where a dict is expected is the record [list |-> ...]
IsDict(spec) == ~ Has(spec, "list")

----------------------------------------------------------------------------
\* clean_html: a code tag becomes a backquote, every other tag is removed

RECURSIVE SubCode(_)
SubCode(html) ==
    IF html = <<>> THEN <<>>
    ELSE <<IF Head(html) \in CodeTags THEN "backquote" ELSE Head(html)>> \o SubCode(Tail(html))

RECURSIVE SubAll(_)
SubAll(html) ==
    IF html = <<>> THEN <<>>
    ELSE (IF Head(html) \in MarkupTags THEN <<>> ELSE <<Head(html)>>) \o SubAll(Tail(html))

clean_html(html) == SubAll(SubCode(html))

\* the requested name used as it is
ReplaceNothing(c) == c

\* str.replace("-", "_") on a tokenised name
RECURSIVE Replace(_)
Replace(c) ==
    IF c = <<>> THEN <<>>
    ELSE <<IF Head(c) = "-" THEN "_" ELSE Head(c)>> \o Replace(Tail(c))

\* f"#/definitions/{obj_type}", and the two string operations of get_definitions
MakeRef(obj_type) == <<"#", "definitions", obj_type>>
NoRef == <<>>
StartsWithDefinitions(ref) == Len(ref) >= 3 /\ ref[1] = "#" /\ ref[2] = "definitions"
LastSegment(ref) == ref[Len(ref)]

\* Field(**kwargs): the pydantic model stores the alias "$ref" as attribute ref,
\* and turns the items dict into a Field of its own
FieldOfItems(kwargs) ==
    [k \in ((DOMAIN kwargs) \ {"$ref"}) \cup (IF Has(kwargs, "$ref") THEN {"ref"} ELSE {}) |->
        IF k = "ref" THEN kwargs["$ref"] ELSE kwargs[k]]
Field(kwargs) ==
    [k \in ((DOMAIN kwargs) \ {"$ref"}) \cup (IF Has(kwargs, "$ref") THEN {"ref"} ELSE {}) |->
        IF k = "ref" THEN kwargs["$ref"]
        ELSE IF k = "items" THEN FieldOfItems(kwargs[k])
        ELSE kwargs[k]]
\* field.ref (None when the field was built without "$ref")
FieldRef(field) == IF Has(field, "ref") THEN field.ref ELSE NoRef

----------------------------------------------------------------------------
\* OcsfToContract.  The instance state that the methods read and update is
\* threaded as st = [types, objects, log, builds]; every method returns
\* [exc, val, st], exc = Ok for a normal return.

Count(b, n) == IF n \in DOMAIN b THEN b[n] ELSE 0
Warn(st, kind, name) == [st EXCEPT !.log = Append(@, [level |-> "warning", kind |-> kind, name |-> name])]

\* _build_scalar_type
_build_scalar_type(name, st) ==
    IF ~ Has(base_schema.types, name) THEN Ret("KeyError", EmptyDict, st)
    ELSE LET spec == base_schema.types[name]
             true_type == IF Has(spec, "type") /\ spec.type # "" THEN spec.type ELSE name
         IN  IF ~ Has(spec, "description") THEN Ret("TypeError", EmptyDict, st)
             ELSE Ret(Ok,
                      Opt(true_type \in DOMAIN base_types, "type", base_types[true_type])
                      @@ ("description" :> clean_html(spec.description))
                      @@ Opt(Has(spec, "min_len"), "minLength", spec.min_len)
                      @@ Opt(Has(spec, "min_len"), "maxLength", spec.min_len)
                      @@ Opt(Has(spec, "range"), "minimum", spec.range[1])
                      @@ Opt(Has(spec, "range"), "maximum", spec.range[2])
                      @@ Opt(Has(spec, "observable"), "observable_id", spec.observable)
                      @@ ("pii" :> (name \in PII_TYPES)),
                      st)

\* get_scalar_type
get_scalar_type(name, st) ==
    LET Store(r) == IF r.exc # Ok THEN r
                    ELSE Ret(Ok, r.val, [r.st EXCEPT !.types = (name :> r.val) @@ @])
    IN  IF name \in DOMAIN st.types THEN Ret(Ok, st.types[name], st)
        ELSE Store(_build_scalar_type(name, st))

\* a tag is the tuple of the parts its string is made of:
\* f"profile:{profile}" is <<"profile:", str(profile)>>, and str(None) = "None"
Tag(t) == <<t>>
ProfileTag(profile) == <<"profile:", profile>>

\* _get_field_args, lines 215-221 and 254-259: the tags list
Tags(spec) ==
    LET group == Has(spec, "group") /\ spec.group # ""
        profile == IF Has(spec, "profile") THEN spec.profile ELSE "None"
        requirement == Has(spec, "requirement") /\ spec.requirement # ""
    IN  (IF group THEN <<Tag(spec.group)>> ELSE <<>>)
        \o (IF group THEN <<ProfileTag(profile)>> ELSE <<>>)
        \o (IF requirement /\ spec.requirement # REQUIRED THEN <<Tag(spec.requirement)>> ELSE <<>>)

\* _get_field_args
_get_field_args(name, spec, st) ==
    IF ~ IsDict(spec) THEN Ret("AttributeError", EmptyDict, st)
    ELSE IF ~ Has(spec, "description") THEN Ret("TypeError", EmptyDict, st)
    ELSE
    LET kwargs == [title |-> IF Has(spec, "caption") /\ spec.caption # "" THEN spec.caption ELSE name,
                   description |-> clean_html(spec.description),
                   tags |-> <<>>]
    IN
    IF Has(spec, "deprecated") /\ spec.deprecated THEN Ret("DeprecatedField", EmptyDict, st)
    ELSE IF name = "$include" THEN Ret(Ok, kwargs, Warn(st, "not handling $include", name))
    ELSE
    LET obj_type == Has(spec, "object_type") /\ spec.object_type # ""
        base_type == IF Has(spec, "type") THEN spec.type ELSE None
        \* lines 238-261, once base is known
        Typed(base) ==
            IF base.exc # Ok THEN base
            ELSE Ret(Ok,
                     Opt(Has(spec, "requirement") /\ spec.requirement = REQUIRED, "required", TRUE)
                     @@ Opt(Has(spec, "enum") /\ spec.enum # <<>>, "enum",
                            [i \in DOMAIN spec.enum |-> spec.enum[i].k])
                     @@ ("tags" :> Tags(spec))
                     @@ Opt(Has(spec, "observable") /\ spec.observable # 0, "observable", spec.observable)
                     @@ ChainMap(kwargs,
                                 IF Has(spec, "is_array") /\ spec.is_array
                                 THEN ("type" :> "array") @@ ("items" :> base.val)
                                 ELSE base.val),
                     base.st)
    IN
    Typed(IF obj_type
          THEN Ret(Ok, ("type" :> "object") @@ ("$ref" :> MakeRef(spec.object_type)), st)
          ELSE get_scalar_type(base_type, st))

\* get_fields
RECURSIVE get_fields_from(_, _, _, _)
get_fields_from(attributes, i, fields, st) ==
    IF i > Len(attributes) THEN Ret(Ok, fields, st)
    ELSE LET name == attributes[i].k
             \* the outcome of the try block of line 267, and the rest of the loop
             Try(r) ==
                IF r.exc = Ok
                THEN [exc |-> Ok, fields |-> DictSet(fields, name, Field(r.val)), st |-> r.st]
                ELSE IF r.exc = "DeprecatedField"
                THEN [exc |-> Ok, fields |-> fields, st |-> Warn(r.st, "is deprecated, skipping", name)]
                ELSE [exc |-> r.exc, fields |-> fields, st |-> r.st]
             Continue(t) ==
                IF t.exc # Ok THEN Ret(t.exc, EmptyDict, t.st)
                ELSE get_fields_from(attributes, i + 1, t.fields, t.st)
         IN  Continue(Try(_get_field_args(name, attributes[i].v, st)))

get_fields(attributes, st) == get_fields_from(attributes, 1, <<>>, st)

\* _build_object and get_object
RECURSIVE get_object(_, _)
_build_object(name, st) ==
    LET st1 == [st EXCEPT !.builds = (name :> (Count(@, name) + 1)) @@ @]
    IN
    IF ~ Has(base_schema.objects, name) THEN Ret("KeyError", EmptyDict, st1)
    ELSE
    LET spec == base_schema.objects[name]
        extends == IF Has(spec, "extends") THEN spec.extends ELSE None
        \* lines 185-193, once the fields are known
        Merge(base_object, fields) ==
            IF fields.exc # Ok THEN fields
            ELSE Ret(Ok,
                     ChainMap(("name" :> name)
                              @@ Opt(Has(spec, "caption"), "title", spec.caption)
                              @@ ("description" :> clean_html(spec.description))
                              @@ ("type" :> "object")
                              @@ ("fields" :> fields.val),
                              base_object.val),
                     fields.st)
        \* lines 185-193, once base_object is known
        Build(base_object) ==
            IF base_object.exc # Ok THEN base_object
            ELSE IF ~ Has(spec, "description") THEN Ret("TypeError", EmptyDict, base_object.st)
            ELSE IF ~ Has(spec, "attributes") THEN Ret("KeyError", EmptyDict, base_object.st)
            ELSE Merge(base_object, get_fields(spec.attributes, base_object.st))
    IN
    Build(get_object(extends, st1))

\* get_object without the assignment to self.ocsf_objects[name]
get_object_not_stored(name, st) ==
    IF name \in DOMAIN st.objects THEN Ret(Ok, st.objects[name], st)
    ELSE _build_object(name, st)

get_object(name, st) ==
    LET Store(r) == IF r.exc # Ok THEN r
                    ELSE Ret(Ok, r.val, [r.st EXCEPT !.objects = (name :> r.val) @@ @])
    IN  IF name \in DOMAIN st.objects THEN Ret(Ok, st.objects[name], st)
        ELSE Store(_build_object(name, st))

----------------------------------------------------------------------------
\* OcsfImporter.import_source and import_ocsfschema

St == [types |-> ocsf_types, objects |-> ocsf_objects, log |-> log, builds |-> builds]
SetSt(st) ==
    /\ ocsf_types' = st.types
    /\ ocsf_objects' = st.objects
    /\ log' = st.log
    /\ builds' = st.builds
Raise(type, at) ==
    /\ pc' = "raised"
    /\ exc' = [type |-> type, at |-> at]

\* {c: base_schema["classes"][c] for c in ocsf_classes}
RECURSIVE SelectFrom(_, _, _)
SelectFrom(classes, wanted, acc) ==
    IF wanted = <<>> THEN acc
    ELSE SelectFrom(classes, Tail(wanted), DictSet(acc, Head(wanted), Lookup(classes, Head(wanted))))

\* import_source: from_json and __init__ (lines 94-99, 124-148)
ImportSource ==
    /\ pc = "import_source"
    /\ IF ~ source.ok
       THEN /\ Raise("DataContractException", "from_json")
            /\ UNCHANGED <<base_schema, ocsf_types, ocsf_objects>>
       ELSE IF ~ Has(source.doc, "objects")
       THEN /\ Raise("KeyError", "__init__")
            /\ base_schema' = source.doc
            /\ UNCHANGED <<ocsf_types, ocsf_objects>>
       ELSE /\ base_schema' = [source.doc EXCEPT !.objects = ChainMap(@, INTERNAL_OBJECTS)]
            /\ ocsf_types' = (None :> EmptyDict)
            /\ ocsf_objects' = (None :> EmptyDict)
            /\ pc' = "import_ocsfschema"
            /\ exc' = exc
    /\ UNCHANGED <<source, ocsf_classes, contract0, contract, builds, log,
                   input_models, ci, mi, known, stack, ice_vars>>

\* import_ocsfschema, lines 293-300
SelectClasses ==
    /\ pc = "import_ocsfschema"
    /\ contract' = IF Has(contract, "models") THEN contract ELSE ("models" :> <<>>) @@ contract
    /\ LET wanted == [i \in DOMAIN ocsf_classes |-> Replace(ocsf_classes[i])]
       IN  IF ocsf_classes # <<>>
           THEN IF \E i \in DOMAIN wanted : wanted[i] \notin Keys(base_schema.classes)
                THEN /\ Raise("KeyError", "classes")
                     /\ UNCHANGED <<input_models, ci>>
                ELSE /\ input_models' = SelectFrom(base_schema.classes, wanted, <<>>)
                     /\ ci' = 1
                     /\ pc' = "classes"
                     /\ exc' = exc
           ELSE /\ input_models' = base_schema.classes
                /\ ci' = 1
                /\ pc' = "classes"
                /\ exc' = exc
    /\ UNCHANGED <<source, ocsf_classes, contract0, base_schema, ocsf_types, ocsf_objects,
                   builds, log, mi, known, stack, ice_vars>>

\* import_ocsfschema, lines 302-315: one iteration of the class loop
ImportClass ==
    /\ pc = "classes"
    /\ ci <= Len(input_models)
    /\ LET name == input_models[ci].k
           spec == input_models[ci].v
           Body(fields) ==
               /\ SetSt(fields.st)
               /\ IF fields.exc # Ok
                  THEN /\ Raise(fields.exc, "get_fields")
                       /\ UNCHANGED <<contract, ci>>
                  ELSE IF ~ Has(spec, "description")
                  THEN /\ Raise("TypeError", "clean_html")
                       /\ UNCHANGED <<contract, ci>>
                  ELSE /\ contract' = [contract EXCEPT !.models = DictSet(@, name,
                                           [title |-> IF Has(spec, "name") THEN spec.name ELSE name,
                                            description |-> clean_html(spec.description),
                                            type |-> IF Has(spec, "type") THEN spec.type ELSE "table",
                                            fields |-> fields.val])]
                       /\ ci' = ci + 1
                       /\ UNCHANGED <<pc, exc>>
       IN  Body(IF Has(spec, "attributes") THEN get_fields(spec.attributes, St)
                ELSE Ret("KeyError", <<>>, St))
    /\ UNCHANGED <<source, ocsf_classes, contract0, base_schema, input_models, mi, known,
                   stack, ice_vars>>

\* import_ocsfschema, line 317: the class loop is over
StartDefinitions ==
    /\ pc = "classes"
    /\ ci > Len(input_models)
    /\ known' = EmptyDict
    /\ mi' = 1
    /\ stack' = <<>>
    /\ pc' = "definitions"
    /\ UNCHANGED <<source, ocsf_classes, contract0, contract, base_schema, ocsf_types,
                   ocsf_objects, builds, log, exc, input_models, ci, ice_vars>>

\* import_ocsfschema, lines 318-319: get_definitions is called on the next model
CallGetDefinitions ==
    /\ pc = "definitions"
    /\ stack = <<>>
    /\ mi <= Len(contract.models)
    /\ stack' = <<[fields |-> contract.models[mi].v.fields, i |-> 1]>>
    /\ UNCHANGED <<source, ocsf_classes, contract0, contract, base_schema, ocsf_types,
                   ocsf_objects, builds, log, pc, exc, input_models, ci, mi, known, ice_vars>>

\* get_definitions, lines 275-286: one iteration of the loop of the innermost call
GetDefinitionsStep ==
    /\ pc = "definitions"
    /\ stack # <<>>
    /\ LET top == Len(stack)
           frame == stack[top]
           field == frame.fields[frame.i].v
           ref == FieldRef(field)
           obj_to_include == LastSegment(ref)
           advanced == [stack EXCEPT ![top].i = @ + 1]
           \* lines 285-286, once get_object has returned or raised
           Include(defn) ==
               /\ SetSt(defn.st)
               /\ IF defn.exc # Ok
                  THEN /\ Raise(defn.exc, "get_object")
                       /\ UNCHANGED <<known, stack>>
                  ELSE /\ known' = (obj_to_include :> defn.val) @@ known
                       /\ stack' = Append(advanced, [fields |-> defn.val.fields, i |-> 1])
                       /\ UNCHANGED <<pc, exc>>
       IN  /\ frame.i <= Len(frame.fields)
           /\ IF ~ (ref # NoRef /\ StartsWithDefinitions(ref))
              THEN /\ stack' = advanced
                   /\ UNCHANGED <<known, pc, exc, ocsf_types, ocsf_objects, log, builds>>
              ELSE IF obj_to_include \in DOMAIN known
              THEN /\ stack' = advanced
                   /\ UNCHANGED <<known, pc, exc, ocsf_types, ocsf_objects, log, builds>>
              ELSE Include(get_object(obj_to_include, St))
    /\ UNCHANGED <<source, ocsf_classes, contract0, contract, base_schema, input_models,
                   ci, mi, ice_vars>>

\* get_definitions, line 287: the innermost call returns known_definitions
GetDefinitionsReturn ==
    /\ pc = "definitions"
    /\ stack # <<>>
    /\ stack[Len(stack)].i > Len(stack[Len(stack)].fields)
    /\ stack' = SubSeq(stack, 1, Len(stack) - 1)
    /\ mi' = IF Len(stack) = 1 THEN mi + 1 ELSE mi
    /\ UNCHANGED <<source, ocsf_classes, contract0, contract, base_schema, ocsf_types,
                   ocsf_objects, builds, log, pc, exc, input_models, ci, known, ice_vars>>

\* import_ocsfschema, lines 320-322
Finish ==
    /\ pc = "definitions"
    /\ stack = <<>>
    /\ mi > Len(contract.models)
    /\ contract' = ("definitions" :> known) @@ contract
    /\ pc' = "done"
    /\ UNCHANGED <<source, ocsf_classes, contract0, base_schema, ocsf_types, ocsf_objects,
                   builds, log, exc, input_models, ci, mi, known, stack, ice_vars>>

----------------------------------------------------------------------------
\* iceberg_converter.py.  The module global field_id is threaded through the
\* functions as st; a NestedField is [field_id, name, field_type, required].

\* get_field_type, lines 134-156: the types that hold no nested field
PrimitiveType(field_type) ==
    IF field_type \in {"string", "varchar", "text"} THEN "string"
    ELSE IF field_type \in {"number", "decimal", "numeric"} THEN "decimal"
    ELSE IF field_type \in {"integer", "int"} THEN "int"
    ELSE IF field_type \in {"long", "float", "double", "boolean", "date"} THEN field_type
    ELSE IF field_type \in {"timestamp", "timestamp_tz"} THEN "timestamptz"
    ELSE IF field_type = "timestamp_ntz" THEN "timestamp"
    ELSE "binary"

RECURSIVE make_field(_, _, _)
RECURSIVE struct_fields_from(_, _, _, _)

\* the loop of to_struct_type and of to_iceberg_schema
struct_fields_from(fields, i, struct_fields, st) ==
    IF i > Len(fields) THEN Ret(Ok, struct_fields, st)
    ELSE LET Continue(r) ==
                IF r.exc # Ok THEN r
                ELSE struct_fields_from(fields, i + 1, Append(struct_fields, r.val), r.st)
         IN  Continue(make_field(fields[i].k, fields[i].v, st))

\* to_struct_type
to_struct_type(fields, st) ==
    LET StructType(r) == IF r.exc # Ok THEN r
                         ELSE Ret(Ok, [kind |-> "struct", fields |-> r.val], r.st)
    IN  StructType(struct_fields_from(fields, 1, <<>>, st))

\* get_field_type; line 131 names to_data_type, which the module does not define
get_field_type(field, st) ==
    IF ~ Has(field, "type") \/ field.type = "null" THEN Ret(Ok, [kind |-> "null"], st)
    ELSE IF field.type = "array" THEN Ret("NameError", [kind |-> "null"], st)
    ELSE IF field.type \in {"object", "record", "struct"}
    THEN to_struct_type(IF Has(field, "fields") THEN field.fields ELSE <<>>, st)
    ELSE Ret(Ok, [kind |-> PrimitiveType(field.type)], st)

\* make_field: the global is incremented, the type is built, and then the
\* NestedField is given the value the global has at that moment
make_field(field_name, field, st) ==
    LET incremented == st + 1
        NestedField(field_type) ==
            IF field_type.exc # Ok THEN field_type
            ELSE Ret(Ok,
                     [field_id |-> field_type.st,
                      name |-> field_name,
                      field_type |-> field_type.val,
                      required |-> Has(field, "required") /\ field.required],
                     field_type.st)
    IN  NestedField(get_field_type(field, incremented))

\* to_iceberg_schema
to_iceberg_schema(model, st) == struct_fields_from(model.fields, 1, <<>>, st)

\* IcebergExporter.export: to_iceberg starts on the contract (lines 42, 55-57)
Export ==
    /\ ice_pc \in {"idle", "raised"}
    /\ Len(ice_out) < MaxExports
    /\ ice_out' = Append(ice_out, <<>>)
    /\ ice_next' = 1
    /\ ice_pc' = "to_iceberg"
    /\ UNCHANGED <<field_id, ice_models, import_vars>>

\* to_iceberg, lines 58-66: one iteration of the model loop (the text of the
\* CREATE TABLE statement is not part of the state)
ToIcebergModel ==
    /\ ice_pc = "to_iceberg"
    /\ ice_next <= Len(ice_models)
    /\ LET Body(schema) ==
               /\ field_id' = schema.st
               /\ IF schema.exc # Ok
                  THEN /\ ice_pc' = "raised"
                       /\ UNCHANGED <<ice_out, ice_next>>
                  ELSE /\ ice_out' = [ice_out EXCEPT ![Len(ice_out)] = Append(@, schema.val)]
                       /\ ice_next' = ice_next + 1
                       /\ ice_pc' = ice_pc
       IN  Body(to_iceberg_schema(ice_models[ice_next].v, field_id))
    /\ UNCHANGED <<ice_models, import_vars>>

\* to_iceberg, line 67
ToIcebergReturn ==
    /\ ice_pc = "to_iceberg"
    /\ ice_next > Len(ice_models)
    /\ ice_pc' = "idle"
    /\ UNCHANGED <<field_id, ice_models, ice_next, ice_out, import_vars>>

----------------------------------------------------------------------------
\* The explored inputs: a source document, a class filter, a contract.

Lists(S, n) == UNION {[1..m -> S] : m \in 0..n}
AttrNames == <<"a", "b", "c", "d">>
Named(specs) == [i \in DOMAIN specs |-> [k |-> AttrNames[i], v |-> specs[i]]]

TypesSection ==
    [string_t |-> [caption |-> "String", description |-> Text],
     email_t |-> [type |-> "string_t", description |-> <<"<code>", "txt", "</code>">>,
                  min_len |-> 3, max_len |-> 64, observable |-> 5],
     integer_t |-> [description |-> Text, range |-> <<0, 9>>],
     weird_t |-> [type |-> "blob_t", description |-> Text],
     nodesc_t |-> [type |-> "string_t"]]

Plain == [description |-> Text, type |-> "string_t"]
Deprecated == [description |-> Text, type |-> "string_t", deprecated |-> TRUE]
RefSpec(target, is_array) ==
    Opt(is_array, "is_array", TRUE) @@ [description |-> Text, object_type |-> target]

TagSpecs ==
    {Opt(g, "group", "primary") @@ Opt(p, "profile", "cloud") @@ Opt(r # None, "requirement", r)
     @@ Plain : g \in BOOLEAN, p \in BOOLEAN, r \in {None, "required", "recommended"}}
AnomalySpecs ==
    {Deprecated,
     [type |-> "string_t", deprecated |-> TRUE],
     [description |-> Text, type |-> "string_t", deprecated |-> FALSE],
     [type |-> "string_t"],
     [description |-> Text, type |-> "weird_t"],
     [description |-> Text, type |-> "ghost_t"],
     [description |-> Text, type |-> "nodesc_t"],
     [description |-> <<"txt", "<a>", "txt", "</a>">>],
     [description |-> Text, type |-> "email_t", is_array |-> TRUE, caption |-> "Mail",
      observable |-> 7, enum |-> <<[k |-> "1", v |-> "A"], [k |-> "2", v |-> "B"]>>],
     RefSpec("ghost", FALSE),
     RefSpec("_entity", TRUE)}
AttrSpecs == TagSpecs \cup AnomalySpecs
IncludeSpecs == {[list |-> <<"profiles/x.json">>], [description |-> Text],
                 [description |-> Text, deprecated |-> TRUE]}

Class(attributes) ==
    [name |-> "Login", description |-> <<"<code>", "txt", "</code>">>, attributes |-> attributes]
Obj(attributes) == [description |-> Text, attributes |-> attributes]
BaseObject == [caption |-> "Object", description |-> Text, attributes |-> <<>>]
Doc(classes, objects) == [types |-> TypesSection, objects |-> objects, classes |-> classes]
Input(doc, filter, c) == [source |-> [ok |-> TRUE, doc |-> doc], filter |-> filter, contract |-> c]

login == <<"login">>
my_class == <<"my", "_", "class">>
my_hyphen_class == <<"my", "-", "class">>
missing == <<"missing">>

EmptyContract == [id |-> "urn:contract"]
OldModel(fields) == [title |-> "Old", description |-> Text, type |-> "table", fields |-> fields]
LegacyDefinition == [name |-> "legacy", type |-> "object", fields |-> <<>>]
Contracts ==
    {EmptyContract,
     [id |-> "urn:contract",
      models |-> <<[k |-> <<"old">>, v |-> OldModel(<<[k |-> "x", v |-> [type |-> "string"]]>>)]>>,
      definitions |-> ("legacy" :> LegacyDefinition)],
     [id |-> "urn:contract",
      models |-> <<[k |-> <<"old">>, v |-> OldModel(<<[k |-> "x", v |-> [type |-> "object",
                                   ref |-> <<"https:", "", "example.com", "x">>]],
                                                      [k |-> "y", v |-> [type |-> "object",
                                   ref |-> <<"#", "definitions", "legacy">>]]>>)]>>,
      definitions |-> ("legacy" :> LegacyDefinition)],
     [id |-> "urn:contract",
      models |-> <<[k |-> my_class, v |-> OldModel(<<>>)]>>,
      definitions |-> EmptyDict]}

\* one class, every list of attribute shapes
AttrInputs ==
    {Input(Doc(<<[k |-> login, v |-> Class(Named(l))]>>, [object |-> BaseObject]), <<>>, EmptyContract)
        : l \in Lists(AttrSpecs, MaxAttrs)}
    \cup
    {Input(Doc(<<[k |-> login, v |-> Class(<<[k |-> "$include", v |-> s]>> \o Named(<<t>>))]>>,
               [object |-> BaseObject]), <<>>, EmptyContract)
        : s \in IncludeSpecs, t \in {Plain, Deprecated}}

\* three objects that refer to each other in every pattern
RefLists(names) == {<<>>} \cup {<<[k |-> "r", v |-> RefSpec(t, a)]>> : t \in names, a \in BOOLEAN}
RefInputs ==
    {Input(Doc(<<[k |-> login, v |-> Class(Named(l))]>>,
               [o1 |-> Obj(x1), o2 |-> Obj(x2), o3 |-> Obj(x3)]), <<>>, EmptyContract)
        : l \in Lists({RefSpec(t, a) : t \in {"o1", "o2"}, a \in BOOLEAN}, MaxAttrs),
          x1 \in RefLists({"o1", "o2", "o3"}),
          x2 \in RefLists({"o1", "o2", "o3"}),
          x3 \in RefLists({"o1", "o2", "o3"})}

\* a chain of objects related by extends, with and without captions
InheritInputs ==
    {Input(Doc(<<[k |-> login, v |-> Class(Named(l))]>>,
               [object |-> Opt(c0, "caption", "Object") @@ Obj(Named(<<Plain, Plain>>)),
                mid |-> Opt(c1, "caption", "Mid") @@ Opt(e1 # None, "extends", e1) @@ Obj(a1),
                d |-> Opt(c2, "caption", "D") @@ Opt(e2 # None, "extends", e2) @@ Obj(a2)]),
           <<>>, EmptyContract)
        : l \in {<<RefSpec("d", FALSE)>>, <<RefSpec("d", FALSE), RefSpec("mid", FALSE)>>,
                 <<RefSpec("mid", FALSE), RefSpec("d", FALSE)>>,
                 <<RefSpec("object", FALSE), RefSpec("d", FALSE)>>},
          c0 \in BOOLEAN, c1 \in BOOLEAN, c2 \in BOOLEAN,
          e1 \in {None, "object"}, e2 \in {None, "object", "mid"},
          a1 \in {<<>>, <<[k |-> "a", v |-> [description |-> Text, type |-> "integer_t",
                                             requirement |-> "required"]]>>},
          a2 \in {<<[k |-> "c", v |-> Plain]>>,
                  <<[k |-> "c", v |-> Deprecated], [k |-> "e", v |-> RefSpec("mid", FALSE)]>>}}

\* the supplemental objects, with and without the base "object" in the document
SupplementalInputs ==
    {[source |-> [ok |-> TRUE,
                  doc |-> Opt(objects # None, "objects", IF objects = "object" THEN [object |-> BaseObject] ELSE EmptyDict)
                          @@ [types |-> TypesSection,
                              classes |-> <<[k |-> login, v |-> [name |-> "Login", description |-> Text,
                                   attributes |-> <<[k |-> "user", v |-> RefSpec(t, FALSE)]>>]]>>]],
      filter |-> <<>>, contract |-> EmptyContract]
        : objects \in {None, "empty", "object"}, t \in {"_entity", "_resource", "_dns"}}
    \cup {[source |-> [ok |-> FALSE], filter |-> <<>>, contract |-> EmptyContract]}

\* class keys and filters that differ in hyphens and underscores; contracts that
\* already hold models and definitions
FilterInputs ==
    {Input(Doc([i \in DOMAIN keys |-> [k |-> keys[i],
                    v |-> IF i = 1 THEN Class(<<[k |-> "user", v |-> RefSpec("_entity", FALSE)]>>)
                          ELSE [attributes |-> <<[k |-> "n", v |-> Plain]>>, description |-> Text]]],
               [object |-> BaseObject]), f, c)
        : keys \in {<<my_hyphen_class>>, <<my_class>>, <<my_hyphen_class, my_class>>, <<login, my_class>>},
          f \in {<<>>, <<my_class>>, <<my_hyphen_class>>, <<missing>>, <<my_hyphen_class, my_class>>},
          c \in Contracts}

Given(inputs) ==
    \E input \in inputs :
        /\ source = input.source
        /\ ocsf_classes = input.filter
        /\ contract0 = input.contract
        /\ contract = input.contract

Init ==
    /\ \/ Given(AttrInputs)
       \/ Given(RefInputs)
       \/ Given(InheritInputs)
       \/ Given(SupplementalInputs)
       \/ Given(FilterInputs)
    /\ base_schema = EmptyDict
    /\ ocsf_types = EmptyDict
    /\ ocsf_objects = EmptyDict
    /\ builds = EmptyDict
    /\ log = <<>>
    /\ pc = "import_source"
    /\ exc = [type |-> None, at |-> None]
    /\ input_models = <<>>
    /\ ci = 1
    /\ mi = 1
    /\ known = EmptyDict
    /\ stack = <<>>
    /\ field_id = 0
    /\ ice_models = <<>>
    /\ ice_next = 1
    /\ ice_out = <<>>
    /\ ice_pc = "off"

Next ==
    \/ ImportSource
    \/ SelectClasses
    \/ ImportClass
    \/ StartDefinitions
    \/ CallGetDefinitions
    \/ GetDefinitionsStep
    \/ GetDefinitionsReturn
    \/ Finish

Spec == Init /\ [][Next]_vars

----------------------------------------------------------------------------
\* The exporter on its own: contracts whose models nest fields in fields.

LeafFields == {[type |-> "string"], [type |-> "long", required |-> TRUE], [title |-> "untyped"],
               [type |-> "array", items |-> [type |-> "string"]]}
NamedFields(fs) == [i \in DOMAIN fs |-> [k |-> AttrNames[i], v |-> fs[i]]]
InnerStructs == {[type |-> "object", fields |-> NamedFields(fs)] : fs \in Lists(LeafFields, 2)}
OuterStructs == {[type |-> "struct", fields |-> NamedFields(<<f>>)] : f \in InnerStructs}
               \cup {[type |-> "record", fields |-> NamedFields(<<[type |-> "string"], f>>)]
                        : f \in InnerStructs}
IceFields == LeafFields \cup InnerStructs \cup OuterStructs
IceModels == {[type |-> "table", fields |-> NamedFields(fs)] : fs \in Lists(IceFields, 2) \ {<<>>}}

IceInit ==
    /\ \E m \in IceModels, second \in BOOLEAN :
        ice_models = IF second
                     THEN <<[k |-> "orders", v |-> m],
                            [k |-> "lines", v |-> [type |-> "table",
                                                   fields |-> NamedFields(<<[type |-> "string"]>>)]]>>
                     ELSE <<[k |-> "orders", v |-> m]>>
    /\ field_id = 0
    /\ ice_next = 1
    /\ ice_out = <<>>
    /\ ice_pc = "idle"
    /\ source = [ok |-> FALSE]
    /\ ocsf_classes = <<>>
    /\ contract0 = EmptyContract
    /\ contract = EmptyContract
    /\ base_schema = EmptyDict
    /\ ocsf_types = EmptyDict
    /\ ocsf_objects = EmptyDict
    /\ builds = EmptyDict
    /\ log = <<>>
    /\ pc = "off"
    /\ exc = [type |-> None, at |-> None]
    /\ input_models = <<>>
    /\ ci = 1
    /\ mi = 1
    /\ known = EmptyDict
    /\ stack = <<>>

IceNext ==
    \/ Export
    \/ ToIcebergModel
    \/ ToIcebergReturn

SpecIceberg == IceInit /\ [][IceNext]_vars

----------------------------------------------------------------------------
\* Properties

Names(d) == [i \in DOMAIN d |-> d[i].k]
IsLive(attribute) ==
    ~ (IsDict(attribute.v) /\ Has(attribute.v, "deprecated") /\ attribute.v.deprecated)
DeprecatedNames(attributes) ==
    {attributes[i].k : i \in {j \in DOMAIN attributes : ~ IsLive(attributes[j])}}
Models0 == IF Has(contract0, "models") THEN contract0.models ELSE <<>>

\* the "#/definitions/<name>" references of a mapping of fields, on the fields
\* themselves and on the items of array fields
FieldRefs(field) ==
    {FieldRef(field)} \cup (IF Has(field, "items") THEN {FieldRef(field.items)} ELSE {})
ReferencedNames(fields) ==
    {LastSegment(r) : r \in {x \in UNION {FieldRefs(fields[i].v) : i \in DOMAIN fields} :
                                x # NoRef /\ StartsWithDefinitions(x)}}

\* C1: after the import, every object named by a "#/definitions/<name>"
\* reference of a model field or of a definition's field, on the field or on
\* its items, is a key of definitions, with the Object Resolver's descriptor.
C1_DefinitionsClosed ==
    pc = "done" =>
        /\ \A i \in DOMAIN contract.models :
              ReferencedNames(contract.models[i].v.fields) \subseteq DOMAIN contract.definitions
        /\ \A n \in DOMAIN contract.definitions :
              /\ ReferencedNames(contract.definitions[n].fields) \subseteq DOMAIN contract.definitions
              /\ n \in DOMAIN ocsf_objects
              /\ contract.definitions[n] = ocsf_objects[n]

\* the objects a document object refers to through its own attributes
AttrTargets(attributes) ==
    {attributes[i].v.object_type :
        i \in {j \in DOMAIN attributes : /\ IsLive(attributes[j])
                                         /\ attributes[j].k # "$include"
                                         /\ Has(attributes[j].v, "object_type")}}
ObjectTargets(n) ==
    IF Has(base_schema.objects, n) THEN AttrTargets(base_schema.objects[n].attributes) ELSE {}
RECURSIVE ReachableFrom(_)
ReachableFrom(S) ==
    LET T == S \cup UNION {ObjectTargets(n) : n \in S}
    IN  IF T = S THEN S ELSE ReachableFrom(T)

\* C2: get_definitions terminates and the number of definitions it returns is
\* the number of distinct object names reachable from the models' fields by
\* following references.
C2_CountReachable ==
    pc = "done" =>
        Cardinality(DOMAIN contract.definitions)
            = Cardinality(ReachableFrom(UNION {ReferencedNames(contract.models[i].v.fields)
                                                  : i \in DOMAIN contract.models}))

\* hyphens turned into underscores, stated on the tokens of a name
Normalized(c) == [i \in DOMAIN c |-> IF c[i] = "-" THEN "_" ELSE c[i]]
Requested == {Normalized(ocsf_classes[i]) : i \in DOMAIN ocsf_classes}

\* C3 (as amended): with a filter, each requested name has its hyphens replaced
\* by underscores and is then looked up exactly among the document's class
\* keys: if every normalized name is a key, exactly those classes are selected
\* and become models under those keys; otherwise the lookup raises KeyError.
C3_FilterNormalizesRequest ==
    (/\ ocsf_classes # <<>>
     /\ pc \notin {"import_source", "import_ocsfschema"}
     /\ exc.at \notin {"from_json", "__init__"}) =>
        IF Requested \subseteq Keys(base_schema.classes)
        THEN /\ exc.at # "classes"
             /\ Keys(input_models) = Requested
             /\ \A i \in DOMAIN input_models :
                   input_models[i].v = Lookup(base_schema.classes, input_models[i].k)
             /\ pc = "done" => Keys(contract.models) = Requested \cup Keys(Models0)
        ELSE /\ pc = "raised"
             /\ exc = [type |-> "KeyError", at |-> "classes"]

\* C3 witness: "my-class" is requested, the document holds my_class, and the
\* contract ends with exactly that one model.
C3_Witness ==
    /\ pc = "done"
    /\ ocsf_classes = <<my_hyphen_class>>
    /\ Keys(base_schema.classes) = {my_class}
    /\ Names(contract.models) = <<my_class>>

\* C3 (as stated): requesting my_class when the document only holds my-class
\* succeeds and the contract holds one model for that class.
C3_UnderscoreRequestFindsHyphenClass ==
    (/\ ocsf_classes = <<my_class>>
     /\ pc \in {"done", "raised"}
     /\ Has(base_schema, "classes")
     /\ Keys(base_schema.classes) = {my_hyphen_class}) =>
        /\ pc = "done"
        /\ Len(contract.models) = Len(Models0) + 1

\* C4: an import aborts only on a document-load failure or on a filter naming
\* a class the document does not hold.
C4_OnlyLoadAndLookupAbort ==
    pc = "raised" => exc.at \in {"from_json", "__init__", "classes"}

\* C5: the import is additive: models under keys that are not imported are
\* unchanged, definitions the contract held are still present, and no other
\* contract field is modified.
C5_Additive ==
    pc = "done" =>
        /\ \A i \in DOMAIN Models0 :
              Models0[i].k \notin Keys(input_models) =>
                  /\ Models0[i].k \in Keys(contract.models)
                  /\ Lookup(contract.models, Models0[i].k) = Models0[i].v
        /\ Has(contract0, "definitions") =>
              \A n \in DOMAIN contract0.definitions : n \in DOMAIN contract.definitions
        /\ \A k \in (DOMAIN contract0) \ {"models", "definitions"} :
              Has(contract, k) /\ contract[k] = contract0[k]

\* C6: a deprecated attribute is absent from the fields of its class, one
\* warning is recorded for it, the other attributes are present, and it never
\* aborts the import (an abort of get_fields is due to some other attribute).
C6_DeprecatedSkipped ==
    /\ pc = "classes" =>
          /\ \A i \in 1..(ci - 1) :
                Keys(Lookup(contract.models, input_models[i].k).fields)
                    = Keys(input_models[i].v.attributes)
                        \ DeprecatedNames(input_models[i].v.attributes)
          /\ Cardinality({j \in DOMAIN log : log[j].kind = "is deprecated, skipping"})
                = Cardinality(UNION {{<<i, n>> : n \in DeprecatedNames(input_models[i].v.attributes)}
                                        : i \in 1..(ci - 1)})
    /\ (pc = "raised" /\ exc.at = "get_fields") =>
          \E j \in DOMAIN input_models[ci].v.attributes :
              IsLive(input_models[ci].v.attributes[j])

RECURSIVE NearestCaption(_)
NearestCaption(n) ==
    IF ~ Has(base_schema.objects, n) THEN None
    ELSE IF Has(base_schema.objects[n], "caption") THEN base_schema.objects[n].caption
    ELSE IF Has(base_schema.objects[n], "extends") THEN NearestCaption(base_schema.objects[n].extends)
    ELSE None

\* C7: a resolved object holds exactly the translated non-deprecated attributes
\* of its own spec and no field of an ancestor; its own name, type and fields
\* win over the base, and its title is the caption of the nearest object of its
\* extends chain that has one.
C7_ShallowOverride ==
    \A n \in (DOMAIN ocsf_objects) \ {None} :
        LET d == ocsf_objects[n]
            own == SelectSeq(base_schema.objects[n].attributes, IsLive)
        IN  /\ d.name = n
            /\ d.type = "object"
            /\ Names(d.fields) = Names(own)
            /\ \A i \in DOMAIN own :
                  /\ d.fields[i].v.title
                        = (IF Has(own[i].v, "caption") THEN own[i].v.caption ELSE own[i].k)
                  /\ Has(d.fields[i].v, "required")
                        <=> (Has(own[i].v, "requirement") /\ own[i].v.requirement = "required")
            /\ IF NearestCaption(n) = None THEN ~ Has(d, "title")
               ELSE d.title = NearestCaption(n)

\* C7 witness: d extends mid extends object, only object has a caption and
\* attributes a and b; d is resolved with the single field c and object's title.
C7_Witness ==
    /\ "d" \in DOMAIN ocsf_objects
    /\ Has(base_schema.objects.d, "extends") /\ base_schema.objects.d.extends = "mid"
    /\ Has(base_schema.objects.mid, "extends")
    /\ ~ Has(base_schema.objects.d, "caption")
    /\ ~ Has(base_schema.objects.mid, "caption")
    /\ Names(ocsf_objects["object"].fields) = <<"a", "b">>
    /\ Names(ocsf_objects["d"].fields) = <<"c">>
    /\ Has(ocsf_objects["d"], "title")
    /\ ocsf_objects["d"].title = "Object"

\* C8: within one import every object name is built at most once, a cached
\* descriptor is never replaced or changed, and every descriptor handed to the
\* definitions is the cached one.
C8_BuiltOnce ==
    [][/\ \A n \in DOMAIN builds' : builds'[n] <= 1
       /\ \A n \in DOMAIN ocsf_objects :
             n \in DOMAIN ocsf_objects' /\ ocsf_objects'[n] = ocsf_objects[n]
       /\ \A n \in DOMAIN known' :
             n \in DOMAIN ocsf_objects' /\ known'[n] = ocsf_objects'[n]]_vars

\* C8 witness: object is the base of both mid and d, all three were asked for,
\* and object was built once.
C8_Witness ==
    /\ pc = "done"
    /\ {"object", "mid", "d"} \subseteq DOMAIN known
    /\ Has(base_schema.objects.mid, "extends")
    /\ Has(base_schema.objects.d, "extends") /\ base_schema.objects.d.extends = "object"
    /\ builds["object"] = 1

\* the tags as the claim derives them
ClaimedTags(spec) ==
    (IF Has(spec, "group") THEN <<Tag(spec.group)>> ELSE <<>>)
    \o (IF Has(spec, "profile") /\ Has(spec, "group") THEN <<ProfileTag(spec.profile)>> ELSE <<>>)
    \o (IF Has(spec, "requirement") /\ spec.requirement # "required"
        THEN <<Tag(spec.requirement)>> ELSE <<>>)

\* C9: the tags of a translated attribute are its group if it has one, then
\* "profile:<profile>" if it has a profile and a group, then its requirement
\* if that is not "required"; a group without a profile gives no profile tag.
C9_TagDerivation ==
    pc \in {"definitions", "done"} =>
        \A i \in DOMAIN input_models :
            \A j \in DOMAIN input_models[i].v.attributes :
                LET attribute == input_models[i].v.attributes[j]
                IN  (IsLive(attribute) /\ attribute.k # "$include") =>
                        Lookup(Lookup(contract.models, input_models[i].k).fields, attribute.k).tags
                            = ClaimedTags(attribute.v)

\* the ids of the NestedFields of a schema, nested ones included
RECURSIVE IdsOf(_)
IdsOf(fields) ==
    IF fields = <<>> THEN <<>>
    ELSE <<Head(fields).field_id>>
         \o (IF Head(fields).field_type.kind = "struct"
             THEN IdsOf(Head(fields).field_type.fields) ELSE <<>>)
         \o IdsOf(Tail(fields))

\* C10: within one exported schema no two NestedFields, nested ones included,
\* share a field id.
C10_DistinctFieldIds ==
    \A e \in DOMAIN ice_out :
        \A m \in DOMAIN ice_out[e] :
            LET ids == IdsOf(ice_out[e][m])
            IN  \A i \in DOMAIN ids : \A j \in DOMAIN ids : i # j => ids[i] # ids[j]

====
